---- MODULE Spec2Model ----
(***************************************************************************)
(* Scan ingestion and progress notification of VulnPatch AI.               *)
(*                                                                         *)
(* The model follows backend/app/services/scan_service.py (the job         *)
(* coroutine create_scan / _process_scan), websocket_service.py (the       *)
(* ConnectionManager registry and its fan-out) and the websocket           *)
(* endpoints.  All coroutines run on one asyncio event loop: a coroutine   *)
(* runs without interruption from one suspending await to the next.  The   *)
(* variable running names the coroutine that holds the loop between two    *)
(* micro-steps of one uninterrupted segment; every other coroutine waits.  *)
(***************************************************************************)
EXTENDS Integers, Sequences, FiniteSets, TLC

(* ------------------------------ bounds -------------------------------- *)
\* Users that upload and subscribe, scan ids, and WebSocket objects.
Owners == {1, 2}
Jobs == {1}
Conns == {1, 2}
\* Services in one uploaded document.
MaxServices == 1
\* Client messages and admin broadcasts handled in one behaviour.
MaxClientMsgs == 1
MaxBroadcasts == 1

(* ----------------------------- coroutines ----------------------------- *)
JobTask(j) == <<"job", j>>
ConnTask(c) == <<"conn", c>>
AdminTask == <<"admin", 0>>
NoTask == <<"none", 0>>
Tasks == {JobTask(j) : j \in Jobs} \cup {ConnTask(c) : c \in Conns}
           \cup {AdminTask}

(* --------------------------- uploaded documents ----------------------- *)
\* cvss scores are kept in tenths (98 is 9.8); NoScore is Python's None.
NoScore == -1
NoCve == "None"

\* A candidate is the extractor's severity guess for one entry of
\* potential_vulnerabilities; a service is the sequence of its candidates.
CandidateSeverities == {"Medium"}
ServiceSet == {<<>>} \cup {<<s>> : s \in CandidateSeverities}
ServiceLists == UNION {[1..n -> ServiceSet] : n \in 0..MaxServices}
Malformed == [wellformed |-> FALSE, services |-> <<>>]
Docs == {Malformed}
          \cup {[wellformed |-> TRUE, services |-> s] : s \in ServiceLists}

(* ------------------------------ enrichment ---------------------------- *)
\* What lookup_cve returns: None, or the dictionary of _parse_cve_data.
NoCveInfo == [found |-> FALSE, no_cve_found |-> FALSE, cve_id |-> NoCve,
              cvss_score |-> NoScore, severity |-> ""]
CveInfos == {NoCveInfo,
             [found |-> TRUE, no_cve_found |-> FALSE, cve_id |-> "CVE",
              cvss_score |-> 98,
              severity |-> "Critical"]}

\* What analyze_vulnerability does: raises, or returns a dictionary.
Analyses == {[kind |-> "raise", severity |-> "", recommendation |-> ""],
             [kind |-> "dict", severity |-> "High", recommendation |-> "llm"]}

NewVulnerability(sev) ==
    [severity |-> sev, cve_id |-> NoCve, cvss_score |-> NoScore,
     description |-> "candidate", recommendation |-> ""]

\* Python truthiness of a cvss score: None and 0 are falsy.
Truthy(score) == score # NoScore /\ score # 0

enhance_vulnerability_with_cve(v, cve_info) ==
    IF cve_info.found /\ ~cve_info.no_cve_found
    THEN [v EXCEPT !.cve_id = cve_info.cve_id,
                   !.cvss_score = cve_info.cvss_score,
                   !.severity = IF cve_info.severity # ""
                                THEN cve_info.severity ELSE @]
    ELSE [v EXCEPT !.cve_id = NoCve, !.cvss_score = NoScore]

\* An enrichment that drops what the analysis says.
enhance_vulnerability_with_llm_ignored(v, analysis) == v

enhance_vulnerability_with_llm(v, analysis) ==
    CASE analysis.kind = "raise" ->
           [v EXCEPT !.recommendation = IF @ = "" THEN "update" ELSE @]
      [] analysis.kind = "none" -> v
      [] OTHER ->
           [v EXCEPT !.recommendation = IF analysis.recommendation # ""
                                        THEN analysis.recommendation ELSE @,
                     !.severity = IF analysis.severity # ""
                                     /\ ~Truthy(v.cvss_score)
                                  THEN analysis.severity ELSE @]

Enrich(sev, cve_info, analysis) ==
    enhance_vulnerability_with_llm(
        enhance_vulnerability_with_cve(NewVulnerability(sev), cve_info),
        analysis)

(* ------------------------------- state -------------------------------- *)
VARIABLES
    scans,               \* Scan rows as committed: user_id, status, ...
    vulnerabilities,     \* committed Vulnerability rows of each scan
    pc,                  \* where each create_scan coroutine stands
    loc,                 \* locals of each create_scan / _process_scan
    published,           \* the status labels each job has published
    active_connections,  \* ConnectionManager.active_connections
    scan_status,         \* ConnectionManager.scan_status
    ws,                  \* each WebSocket and its handler coroutine
    iter,                \* the fan-out loop each coroutine is suspended in
    running,             \* the coroutine holding the event loop
    rx,                  \* what the peer of each WebSocket has received
    env,                 \* what the environment may still do
    enrich,              \* a candidate on its way through the enrichment
    cve,                 \* the lookups of one key and their cache
    parser,              \* a document on its way through the parser
    upload,              \* a request on its way through the upload endpoint
    store                \* the tables a delete works on

\* The state of the scan job and of the progress channel.
web == <<scans, vulnerabilities, pc, loc, published, active_connections,
         scan_status, ws, iter, running, rx, env>>

\* The state of the components examined on their own.
aux == <<enrich, cve, parser, upload, store>>
\* What each component leaves alone.
restEnrich == <<web, cve, parser, upload, store>>
restCve == <<web, enrich, parser, upload, store>>
restParser == <<web, enrich, cve, upload, store>>
restUpload == <<web, enrich, cve, parser, store>>
restStore == <<web, enrich, cve, parser, upload>>

vars == <<web, aux>>

Ended == {"done", "error", "aborted"}
Terminal == {"completed", "failed"}

NoResults == [total_vulnerabilities |-> -1, critical_count |-> -1,
              high_count |-> -1, medium_count |-> -1, low_count |-> -1,
              services_analyzed |-> -1]

\* What a peer that has received nothing knows of a job.
NoStatus == [scan_id |-> 0, progress |-> -1, status |-> "",
             updated_at |-> 0, results |-> NoResults]

Idle == [st |-> "idle"]
Returned == [st |-> "returned"]
Raised == [st |-> "raised"]

\* A JSON message; data maps scan ids to scan_status entries.
Msg(type, scan_id, data, results) ==
    [type |-> type, scan_id |-> scan_id, data |-> data, results |-> results]

Min(a, b) == IF a < b THEN a ELSE b

(* ------------------------- the receiving peers ------------------------ *)
IsTerminal(m, j) ==
    \/ m.type = "scan_complete" /\ m.scan_id = j
    \/ /\ m.type = "scan_progress"
       /\ j \in DOMAIN m.data
       /\ m.data[j].status = "failed"

\* The jobs a message is about.
JobsOf(m) == DOMAIN m.data \cup ({m.scan_id} \cap Jobs)

\* The peer's record after connection.send_text(m) succeeded: the last
\* state it saw of each job, how many terminal events (capped at 2),
\* whether a job state came after a terminal event, whether a job state
\* came that it had seen before, whether a progress percentage was lower
\* than the one before, and the owners of the jobs it heard about.
Deliver(r, m) ==
    LET js == DOMAIN m.data IN
    [last  |-> [j \in Jobs |-> IF j \in js THEN m.data[j] ELSE r.last[j]],
     term  |-> [j \in Jobs |-> IF IsTerminal(m, j)
                               THEN Min(r.term[j] + 1, 2) ELSE r.term[j]],
     after |-> [j \in Jobs |-> r.after[j] \/ (j \in js /\ r.term[j] > 0)],
     dup   |-> [j \in Jobs |-> r.dup[j]
                               \/ (j \in js /\ m.data[j] = r.last[j])],
     down  |-> [j \in Jobs |-> r.down[j]
                               \/ (j \in js /\ m.data[j].progress
                                                  < r.last[j].progress)],
     from  |-> r.from \cup {scans[j].user_id : j \in JobsOf(m)}]

\* The same, recording only the owners.
DeliverFrom(r, m) ==
    [r EXCEPT !.from = @ \cup {scans[j].user_id : j \in JobsOf(m)}]

(* --------------------------- ConnectionManager ------------------------ *)
\* A registry that files a socket under every user it knows.
Register_under_all(reg, c, o) ==
    [k \in DOMAIN reg \cup {o} |->
        IF k \in DOMAIN reg THEN reg[k] \cup {c} ELSE {c}]

\* connect, lines 27-30: register the socket under its user.
Register(reg, c, o) ==
    IF o \in DOMAIN reg
    THEN [reg EXCEPT ![o] = @ \cup {c}]
    ELSE (o :> {c}) @@ reg

\* disconnect: discard the socket and drop an emptied set.
disconnect(reg, c, o) ==
    IF o \in DOMAIN reg
    THEN IF reg[o] \ {c} = {}
         THEN [k \in DOMAIN reg \ {o} |-> reg[k]]
         ELSE [reg EXCEPT ![o] = @ \ {c}]
    ELSE reg

\* A suspended "for connection in <set>" holds a set iterator.  Changing
\* the set is seen by the iterator; deleting the owner's key leaves the
\* iterator on the emptied old set object.
Touch(its, o, deleted) ==
    [t \in Tasks |->
        IF its[t].st = "active" /\ its[t].owner = o
        THEN [its[t] EXCEPT !.modified = TRUE, !.detached = @ \/ deleted]
        ELSE its[t]]

TouchIf(its, reg1, reg2, o) ==
    IF o \in DOMAIN reg1 /\ o \in DOMAIN reg2 /\ reg1[o] = reg2[o]
    THEN its
    ELSE IF o \notin DOMAIN reg1 /\ o \notin DOMAIN reg2 THEN its
    ELSE Touch(its, o, o \in DOMAIN reg1 /\ o \notin DOMAIN reg2)

\* A loop over the sockets of owner o suspended in send_text to socket c.
Loop(reg, o, m, c) ==
    [st |-> "active", owner |-> o, msg |-> m, target |-> c, visited |-> {c},
     used |-> Cardinality(reg[o]), detached |-> FALSE, modified |-> FALSE,
     failed |-> {}, keys |-> {}, dict_used |-> 0]

\* send_personal_message up to its first send_text: the iterator states it
\* can be suspended in, or Returned when there is nobody to send to.
send_personal_message(reg, o, m) ==
    IF o \notin DOMAIN reg \/ reg[o] = {}
    THEN {Returned}
    ELSE {Loop(reg, o, m, c) : c \in reg[o]}

\* The rest of the loop body for the socket of the pending send_text: the
\* send succeeded, or it raised and the socket is noted as disconnected.
AfterSend(it) ==
    IF ws[it.target].broken
    THEN [it EXCEPT !.failed = @ \cup {it.target}]
    ELSE it

\* "Set changed size during iteration": what the set iterator checks.
IterRaises(it) ==
    \/ it.detached
    \/ it.owner \notin DOMAIN active_connections
    \/ Cardinality(active_connections[it.owner]) # it.used

\* A clean-up that removes nothing.
RemoveFailed_nothing(reg, o, failed) == reg

\* lines 72-73: remove the failed connections from the owner's set.
RemoveFailed(reg, o, failed) == [reg EXCEPT ![o] = @ \ failed]

\* One resumption of a coroutine suspended in send_personal_message.
SendStep(t) ==
    /\ running = NoTask
    /\ t # AdminTask
    /\ iter[t].st = "active"
    /\ LET it == AfterSend(iter[t])
           c == it.target
           o == it.owner
       IN /\ rx' = IF ws[c].broken THEN rx
                   ELSE IF env.observe
                   THEN [rx EXCEPT ![c] = Deliver(@, it.msg)]
                   ELSE [rx EXCEPT ![c] = DeliverFrom(@, it.msg)]
          /\ IF IterRaises(it)
             THEN /\ iter' = [iter EXCEPT ![t] = Raised]
                  /\ running' = t
                  /\ UNCHANGED active_connections
             ELSE \/ \E n \in active_connections[o] \ it.visited :
                        /\ iter' = [iter EXCEPT ![t] =
                                      [it EXCEPT !.target = n,
                                                 !.visited = @ \cup {n}]]
                        /\ running' = NoTask
                        /\ UNCHANGED active_connections
                  \/ /\ active_connections[o] \ it.visited = {} \/ it.modified
                     /\ active_connections' =
                            RemoveFailed(active_connections, o, it.failed)
                     /\ iter' = [TouchIf(iter, active_connections,
                                         active_connections', o)
                                 EXCEPT ![t] = [it EXCEPT !.st = "returned"]]
                     /\ running' = t
    /\ UNCHANGED <<scans, vulnerabilities, pc, loc, published, scan_status,
                   ws, env, aux>>

(* -------------------------- scan_status updates ----------------------- *)
Clock(ss, o, j) ==
    IF o \in DOMAIN ss /\ j \in DOMAIN ss[o] THEN ss[o][j].updated_at ELSE 0

\* update_scan_progress, lines 98-107: record the event as last-known state.
update_scan_progress(ss, o, j, progress, status) ==
    LET rec == [scan_id |-> j, progress |-> progress, status |-> status,
                updated_at |-> Clock(ss, o, j) + 1, results |-> NoResults]
        mine == IF o \in DOMAIN ss THEN ss[o] ELSE <<>>
    IN (o :> ((j :> rec) @@ mine)) @@ ss

\* notify_scan_complete, lines 118-125: update an existing entry in place.
notify_scan_complete(ss, o, j, results) ==
    IF o \in DOMAIN ss /\ j \in DOMAIN ss[o]
    THEN [ss EXCEPT ![o][j] = [@ EXCEPT !.status = "completed",
                                        !.progress = 100,
                                        !.results = results]]
    ELSE ss

(* ------------------------------ the job ------------------------------- *)
Doc(j) == scans[j].raw_data
Services(j) == Doc(j).services
Me(j) == JobTask(j)

\* A parser that accepts every document.
parse_xml_file_lenient(doc) == "parsed"

\* The parser raises on a document that is not well-formed.
parse_xml_file(doc) == IF doc.wellformed THEN "parsed" ELSE "ValueError"

\* scan_service.py line 99: int(30 + 40 * (idx + 1) / total_services).
AnalyzingProgress(idx, total) == 30 + ((40 * (idx + 1)) \div total)

CountSeverity(vs, sev) ==
    Cardinality({i \in 1..Len(vs) : vs[i].severity = sev})

\* lines 154-161: the result summary of the completion event.
results(vs, critical_vulns, total_services) ==
    [total_vulnerabilities |-> Len(vs),
     critical_count |-> critical_vulns,
     high_count |-> CountSeverity(vs, "High"),
     medium_count |-> CountSeverity(vs, "Medium"),
     low_count |-> CountSeverity(vs, "Low"),
     services_analyzed |-> total_services]

Results(j) ==
    results(loc[j].vulnerabilities, loc[j].critical_vulns, Len(Services(j)))

\* The coroutine enters send_personal_message(o, m) and moves to pc value p.
Send(j, o, m, p) ==
    /\ \E it \in send_personal_message(active_connections, o, m) :
          /\ iter' = [iter EXCEPT ![Me(j)] = it]
          /\ running' = IF it.st = "active" THEN NoTask ELSE Me(j)
    /\ pc' = [pc EXCEPT ![j] = p]

\* The coroutine leaves create_scan (return, or an exception to the caller).
Leave(j, p) ==
    /\ pc' = [pc EXCEPT ![j] = p]
    /\ iter' = [iter EXCEPT ![Me(j)] = Idle]
    /\ running' = NoTask

\* await manager.update_scan_progress(user_id, scan.id, {...}).
Publish(j, o, progress, status, p) ==
    /\ scan_status' = update_scan_progress(scan_status, o, j, progress, status)
    /\ published' = [published EXCEPT ![j] = @ \cup {status}]
    /\ Send(j, o, Msg("scan_progress", j, (j :> scan_status'[o][j]),
                      NoResults), p)

\* The sockets of owner o that are registered and whose peer is there.
LiveSockets(o) ==
    IF o \in DOMAIN active_connections
    THEN {c \in active_connections[o] : ~ws[c].broken} ELSE {}

\* User ids are only compared for equality: a user id is taken into use
\* when the ids below it are in use.
InUse(o) ==
    \/ \E j \in Jobs : pc[j] # "new" /\ scans[j].user_id = o
    \/ \E c \in Conns : ws[c].state # "fresh" /\ ws[c].user_id = o

NextUser(o) == IF o = 1 THEN TRUE ELSE InUse(o - 1)

\* create_scan lines 31-49: insert the row, publish the started event.
CreateScan(j, o, doc) ==
    /\ running = NoTask
    /\ pc[j] = "new"
    /\ NextUser(o)
    /\ scans' = [scans EXCEPT ![j] = [user_id |-> o, status |-> "processing",
                                      raw_data |-> doc, error_message |-> "",
                                      processed_at |-> FALSE]]
    /\ Publish(j, o, 0, "started", "started")
    /\ ws' = [c \in Conns |->
                IF env.observe /\ c \in LiveSockets(o)
                THEN [ws[c] EXCEPT !.attached = @ \cup {j}] ELSE ws[c]]
    /\ UNCHANGED <<vulnerabilities, loc, active_connections, rx, env, aux>>

\* An except branch that publishes the failure and commits nothing.
Fail_uncommitted(j, e) ==
    /\ Publish(j, scans[j].user_id, 0, "failed", "failed")
    /\ UNCHANGED <<scans, vulnerabilities>>

\* create_scan lines 54-66: the except branch.
Fail(j, e) ==
    /\ scans' = [scans EXCEPT ![j].status = "failed",
                              ![j].error_message = e]
    /\ Publish(j, scans[j].user_id, 0, "failed", "failed")
    /\ UNCHANGED vulnerabilities

\* The next iteration of the loop over services (lines 97-104), or the
\* saving event after the last service (lines 138-142).
NextService(j, idx) ==
    IF idx < Len(Services(j))
    THEN Publish(j, scans[j].user_id,
                 AnalyzingProgress(idx, Len(Services(j))), "analyzing",
                 "analyzing")
    ELSE Publish(j, scans[j].user_id, 80, "saving", "saving")

\* lines 106-135 for one service: enrich and collect its candidates.
EnrichAll(cands, cves, llms) ==
    [i \in 1..Len(cands) |-> Enrich(cands[i], cves[i], llms[i])]

\* lines 144-163: commit the rows and the status, then notify completion.
Save(j) ==
    LET o == scans[j].user_id IN
    /\ vulnerabilities' = [vulnerabilities EXCEPT ![j] = loc[j].vulnerabilities]
    /\ scans' = [scans EXCEPT ![j].status = "completed",
                              ![j].processed_at = TRUE]
    /\ scan_status' = notify_scan_complete(scan_status, o, j, Results(j))
    /\ Send(j, o, Msg("scan_complete", j, <<>>, Results(j)), "complete")
    /\ UNCHANGED <<loc, published>>

\* lines 166-167: one critical_alert per critical vulnerability.
Alerts(j, left) ==
    IF left > 0
    THEN /\ Send(j, scans[j].user_id,
                 Msg("critical_alert", j, <<>>, NoResults), "alert")
         /\ loc' = [loc EXCEPT ![j].alerts_left = left - 1,
                                ![j].alerts_sent = @ + 1]
    ELSE /\ Leave(j, "done")
         /\ UNCHANGED loc

\* The coroutine goes on after a send_personal_message returned or raised,
\* up to its next suspending await.
JobContinue(j) ==
    /\ running = Me(j)
    /\ LET ok == iter[Me(j)].st = "returned" IN
       \/ /\ pc[j] = "started"
          /\ IF ok
             THEN /\ Publish(j, scans[j].user_id, 10, "parsing", "parsing")
                  /\ UNCHANGED <<scans, vulnerabilities, loc>>
             ELSE \* raised outside the try block: create_scan is left
                  /\ Leave(j, "aborted")
                  /\ UNCHANGED <<scans, vulnerabilities, loc, scan_status,
                                 published>>
       \/ /\ pc[j] = "parsing"
          /\ IF ~ok THEN Fail(j, "RuntimeError") /\ UNCHANGED loc
             ELSE /\ loc' = [loc EXCEPT ![j].parsed = parse_xml_file(Doc(j))]
                  /\ IF parse_xml_file(Doc(j)) = "ValueError"
                     THEN Fail(j, "Invalid XML format")
                     ELSE /\ Publish(j, scans[j].user_id, 30, "extracting",
                                     "extracting")
                          /\ UNCHANGED <<scans, vulnerabilities>>
       \/ /\ pc[j] = "extracting"
          /\ IF ~ok THEN Fail(j, "RuntimeError") /\ UNCHANGED loc
             ELSE /\ NextService(j, 0)
                  /\ UNCHANGED <<scans, vulnerabilities, loc>>
       \/ /\ pc[j] = "analyzing"
          /\ IF ~ok THEN Fail(j, "RuntimeError") /\ UNCHANGED loc
             ELSE IF Services(j)[loc[j].idx + 1] = <<>>
             THEN /\ NextService(j, loc[j].idx + 1)
                  /\ loc' = [loc EXCEPT ![j].idx = @ + 1]
                  /\ UNCHANGED <<scans, vulnerabilities>>
             ELSE \* suspended in the lookups of the first candidate
                  /\ Leave(j, "enrich")
                  /\ UNCHANGED <<scans, vulnerabilities, loc, scan_status,
                                 published>>
       \/ /\ pc[j] = "saving"
          /\ IF ~ok THEN Fail(j, "RuntimeError") /\ UNCHANGED loc
             ELSE Save(j)
       \/ /\ pc[j] = "complete"
          /\ IF ~ok THEN Fail(j, "RuntimeError") /\ UNCHANGED loc
             ELSE \* notify_scan_complete line 138: send_dashboard_update
                  /\ Send(j, scans[j].user_id,
                          Msg("dashboard_refresh", 0, <<>>, NoResults),
                          "dashboard")
                  /\ UNCHANGED <<scans, vulnerabilities, loc, scan_status,
                                 published>>
       \/ /\ pc[j] = "dashboard"
          /\ IF ~ok THEN Fail(j, "RuntimeError") /\ UNCHANGED loc
             ELSE /\ Alerts(j, loc[j].critical_vulns)
                  /\ UNCHANGED <<scans, vulnerabilities, scan_status,
                                 published>>
       \/ /\ pc[j] = "alert"
          /\ IF ~ok THEN Fail(j, "RuntimeError") /\ UNCHANGED loc
             ELSE /\ Alerts(j, loc[j].alerts_left)
                  /\ UNCHANGED <<scans, vulnerabilities, scan_status,
                                 published>>
       \/ /\ pc[j] = "failed"
          \* line 66: raise, whether the failure event went out or not
          /\ Leave(j, "error")
          /\ UNCHANGED <<scans, vulnerabilities, loc, scan_status, published>>
    /\ UNCHANGED <<active_connections, ws, rx, env, aux>>

\* The lookups of the candidates of one service return (lines 106-135).
EnrichService(j) ==
    /\ running = NoTask
    /\ pc[j] = "enrich"
    /\ LET cands == Services(j)[loc[j].idx + 1]
           n == Len(cands)
       IN \E cves \in [1..n -> CveInfos], llms \in [1..n -> Analyses] :
            LET vs == EnrichAll(cands, cves, llms) IN
            /\ loc' = [loc EXCEPT
                         ![j].vulnerabilities = @ \o vs,
                         ![j].critical_vulns = @ + CountSeverity(vs, "Critical"),
                         ![j].lookups = @ + n,
                         ![j].idx = @ + 1]
            /\ NextService(j, loc[j].idx + 1)
    /\ UNCHANGED <<scans, vulnerabilities, active_connections, ws, rx, env, aux>>

(* ------------------------- WebSocket handlers ------------------------- *)
Sock(c) == ConnTask(c)

\* The jobs of owner o that are created and not yet completed or failed.
InFlight(o) ==
    {j \in Jobs : pc[j] # "new" /\ scans[j].user_id = o
                  /\ scans[j].status \notin Terminal}

\* A handler coroutine enters send_personal_message(o, m) in state s.
HandlerSend(c, o, m, s, reg) ==
    \E it \in send_personal_message(reg, o, m) :
       /\ iter' = [TouchIf(iter, active_connections, reg, o)
                   EXCEPT ![Sock(c)] = it]
       /\ running' = IF it.st = "active" THEN NoTask ELSE Sock(c)
       /\ ws' = [ws EXCEPT ![c].user_id = o, ![c].state = s]

\* handle_websocket_connection line 193 and connect, lines 23-38: the
\* socket is accepted and registered, then the stored scan status of the
\* user, if there is any, is sent with send_personal_message.
Connect(c, o) ==
    /\ running = NoTask
    /\ ws[c].state = "fresh"
    /\ IF c = 1 THEN TRUE ELSE ws[c - 1].state # "fresh"
    /\ NextUser(o)
    /\ active_connections' = Register(active_connections, c, o)
    /\ IF o \in DOMAIN scan_status
       THEN HandlerSend(c, o, Msg("scan_status", 0, scan_status[o],
                                  NoResults),
                        "connecting", active_connections')
       ELSE /\ iter' = TouchIf(iter, active_connections,
                               active_connections', o)
            /\ ws' = [ws EXCEPT ![c].user_id = o, ![c].state = "open"]
            /\ running' = NoTask
    /\ UNCHANGED <<scans, vulnerabilities, pc, loc, published, scan_status,
                   rx, env, aux>>

\* The handler goes on after its send_personal_message returned or raised.
\* connect is called outside the try block of handle_websocket_connection:
\* when it raises the handler is left and the socket stays registered.
ConnContinue(c) ==
    /\ running = Sock(c)
    /\ LET ok == iter[Sock(c)].st = "returned"
           o == ws[c].user_id
       IN IF ok
          THEN /\ ws' = [ws EXCEPT ![c].state = "open"]
               /\ iter' = [iter EXCEPT ![Sock(c)] = Idle]
               /\ UNCHANGED active_connections
          ELSE IF ws[c].state = "connecting"
          THEN /\ ws' = [ws EXCEPT ![c].state = "closed",
                                   ![c].broken = TRUE,
                                   ![c].attached = {}]
               /\ iter' = [iter EXCEPT ![Sock(c)] = Idle]
               /\ UNCHANGED active_connections
          ELSE \* lines 206-208: except Exception: manager.disconnect
               /\ active_connections' = disconnect(active_connections, c, o)
               /\ ws' = [ws EXCEPT ![c].state = "closed",
                                   ![c].broken = TRUE,
                                   ![c].attached = {}]
               /\ iter' = [TouchIf(iter, active_connections,
                                   active_connections', o)
                           EXCEPT ![Sock(c)] = Idle]
    /\ running' = NoTask
    /\ UNCHANGED <<scans, vulnerabilities, pc, loc, published, scan_status,
                   rx, env, aux>>

\* The messages a client can send: _handle_client_message, lines 210-234.
ClientMessages ==
    {[type |-> "ping", scan_id |-> 0],
     [type |-> "request_dashboard_update", scan_id |-> 0]}
      \cup {[type |-> "subscribe_scan", scan_id |-> j] : j \in Jobs}

\* What _handle_client_message sends for message m of owner o, if anything.
Reply(o, m) ==
    CASE m.type = "ping" -> {Msg("pong", 0, <<>>, NoResults)}
      [] m.type = "request_dashboard_update" ->
           {Msg("dashboard_refresh", 0, <<>>, NoResults)}
      [] OTHER ->
           IF o \in DOMAIN scan_status /\ m.scan_id \in DOMAIN scan_status[o]
           THEN {Msg("scan_status", 0,
                     (m.scan_id :> scan_status[o][m.scan_id]), NoResults)}
           ELSE {}

\* receive_text returns a message and the handler answers it.
ClientMessage(c, m) ==
    /\ running = NoTask
    /\ ws[c].state = "open"
    /\ ~ws[c].broken
    /\ env.msgs < MaxClientMsgs
    /\ env' = [env EXCEPT !.msgs = @ + 1]
    /\ LET o == ws[c].user_id IN
       IF Reply(o, m) = {}
       THEN UNCHANGED <<ws, iter, running>>
       ELSE \E r \in Reply(o, m) :
               HandlerSend(c, o, r, "handling", active_connections)
    /\ UNCHANGED <<scans, vulnerabilities, pc, loc, published,
                   active_connections, scan_status, rx, aux>>

\* The peer of a socket goes away: every later send_text to it raises.
PeerGone(c) ==
    /\ running = NoTask
    /\ ws[c].state \in {"connecting", "open", "handling"}
    /\ ~ws[c].broken
    /\ ws' = [ws EXCEPT ![c].broken = TRUE, ![c].attached = {}]
    /\ UNCHANGED <<scans, vulnerabilities, pc, loc, published,
                   active_connections, scan_status, iter, running, rx, env, aux>>

\* lines 204-205: receive_text raises WebSocketDisconnect.
Disconnect(c) ==
    /\ running = NoTask
    /\ ws[c].state = "open"
    /\ ws[c].broken
    /\ active_connections' = disconnect(active_connections, c, ws[c].user_id)
    /\ iter' = TouchIf(iter, active_connections, active_connections',
                       ws[c].user_id)
    /\ ws' = [ws EXCEPT ![c].state = "closed"]
    /\ UNCHANGED <<scans, vulnerabilities, pc, loc, published, scan_status,
                   running, rx, env, aux>>

(* ------------------------------ broadcast ----------------------------- *)
Roles == {"user", "admin"}

\* broadcast_to_all, line 82: the dict iterator hands out the next user
\* with its set and the inner loop starts; users with an empty set are
\* passed over.  The iterator raises when the dict changed size.
BroadcastNext(reg, m, keys, dict_used) ==
    IF Cardinality(DOMAIN reg) # dict_used
    THEN {Raised}
    ELSE LET rest == {o \in DOMAIN reg \ keys : reg[o] # {}} IN
         IF rest = {}
         THEN {Returned}
         ELSE UNION {{[Loop(reg, o, m, c) EXCEPT !.keys = keys \cup {o},
                                                 !.dict_used = dict_used] :
                        c \in reg[o]} : o \in rest}

\* What is left of the request when broadcast_to_all returned or raised.
AdminDone(it) == IF it.st = "active" THEN it ELSE Idle

\* broadcast_message, lines 87-122: 403 unless the caller is an admin.
Broadcast(role) ==
    /\ running = NoTask
    /\ iter[AdminTask].st = "idle"
    /\ env.bcasts < MaxBroadcasts
    /\ env' = [env EXCEPT !.bcasts = @ + 1, !.caller = role]
    /\ IF role # "admin"
       THEN UNCHANGED iter
       ELSE \E it \in BroadcastNext(active_connections,
                                    Msg("admin_broadcast", 0, <<>>, NoResults),
                                    {}, Cardinality(DOMAIN active_connections)) :
               iter' = [iter EXCEPT ![AdminTask] = AdminDone(it)]
    /\ UNCHANGED <<scans, vulnerabilities, pc, loc, published,
                   active_connections, scan_status, ws, running, rx, aux>>

\* One resumption of broadcast_to_all, lines 85-94.
BroadcastStep ==
    /\ running = NoTask
    /\ iter[AdminTask].st = "active"
    /\ LET it == AfterSend(iter[AdminTask])
           c == it.target
           o == it.owner
       IN /\ rx' = IF ws[c].broken THEN rx
                   ELSE [rx EXCEPT ![c] = DeliverFrom(@, it.msg)]
          /\ IF IterRaises(it)
             THEN /\ iter' = [iter EXCEPT ![AdminTask] = Idle]
                  /\ UNCHANGED active_connections
             ELSE \/ \E n \in active_connections[o] \ it.visited :
                        /\ iter' = [iter EXCEPT ![AdminTask] =
                                      [it EXCEPT !.target = n,
                                                 !.visited = @ \cup {n}]]
                        /\ UNCHANGED active_connections
                  \/ /\ active_connections[o] \ it.visited = {} \/ it.modified
                     /\ active_connections' =
                            RemoveFailed(active_connections, o, it.failed)
                     /\ \E nx \in BroadcastNext(active_connections', it.msg,
                                                it.keys, it.dict_used) :
                           iter' = [TouchIf(iter, active_connections,
                                            active_connections', o)
                                    EXCEPT ![AdminTask] = AdminDone(nx)]
    /\ UNCHANGED <<scans, vulnerabilities, pc, loc, published, scan_status,
                   ws, running, env, aux>>

(* --------------------------- specifications --------------------------- *)
NoScan == [user_id |-> 0, status |-> "none", raw_data |-> Malformed,
           error_message |-> "", processed_at |-> FALSE]

NoPeer == [last |-> [j \in Jobs |-> NoStatus], term |-> [j \in Jobs |-> 0],
           after |-> [j \in Jobs |-> FALSE], dup |-> [j \in Jobs |-> FALSE],
           down |-> [j \in Jobs |-> FALSE], from |-> {}]

\* No upload yet, nobody connected.
Quiet ==
    /\ scans = [j \in Jobs |-> NoScan]
    /\ vulnerabilities = [j \in Jobs |-> <<>>]
    /\ pc = [j \in Jobs |-> "new"]
    /\ loc = [j \in Jobs |-> [idx |-> 0, vulnerabilities |-> <<>>,
                              critical_vulns |-> 0, alerts_left |-> 0,
                              alerts_sent |-> 0,
                              lookups |-> 0, parsed |-> "none"]]
    /\ published = [j \in Jobs |-> {}]
    /\ active_connections = <<>>
    /\ scan_status = <<>>
    /\ ws = [c \in Conns |-> [user_id |-> 0, state |-> "fresh",
                              broken |-> FALSE, attached |-> {}]]
    /\ iter = [t \in Tasks |-> Idle]
    /\ running = NoTask
    /\ rx = [c \in Conns |-> NoPeer]

\* No candidate is being enriched.
NoEnrich == [st |-> "idle"]

\* No lookup is under way.
NoLookups == [st |-> "idle"]
InitState ==
    /\ Quiet
    /\ enrich = NoEnrich /\ cve = NoLookups /\ parser = Idle /\ upload = Idle
    /\ store = Idle

\* Uploads and subscriber connections, with the peers' records kept.
Init ==
    InitState /\ env = [msgs |-> 0, bcasts |-> 0, caller |-> "",
                        observe |-> TRUE]

Next ==
    \/ \E j \in Jobs, o \in Owners, doc \in Docs : CreateScan(j, o, doc)
    \/ \E j \in Jobs : JobContinue(j)
    \/ \E j \in Jobs : EnrichService(j)
    \/ \E t \in Tasks : SendStep(t)
    \/ \E c \in Conns, o \in Owners : Connect(c, o)
    \/ \E c \in Conns : ConnContinue(c)
    \/ \E c \in Conns : PeerGone(c)
    \/ \E c \in Conns : Disconnect(c)

Spec == Init /\ [][Next]_vars

\* Uploads, connections whose peers stay, client messages and broadcasts;
\* of the peers only the owners they heard about are kept.
InitClients ==
    InitState /\ env = [msgs |-> 0, bcasts |-> 0, caller |-> "",
                        observe |-> FALSE]

NextClients ==
    \/ \E j \in Jobs, o \in Owners, doc \in Docs : CreateScan(j, o, doc)
    \/ \E j \in Jobs : JobContinue(j)
    \/ \E j \in Jobs : EnrichService(j)
    \/ \E t \in Tasks : SendStep(t)
    \/ \E c \in Conns, o \in Owners : Connect(c, o)
    \/ \E c \in Conns : ConnContinue(c)
    \/ \E c \in Conns, m \in ClientMessages : ClientMessage(c, m)
    \/ \E role \in Roles : Broadcast(role)
    \/ BroadcastStep

SpecClients == InitClients /\ [][NextClients]_vars

\* Uploads and subscriber connections with every step of Spec; of the peers
\* only the owners they heard about are kept.
SpecJobs == InitClients /\ [][Next]_vars

(* ------------------------------- claims ------------------------------- *)

\* C1: for every job and every subscriber connection the progress
\* percentages of that job delivered to the connection never decrease, on
\* the success path and on every failure path.
C1_ProgressNonDecreasing ==
    \A c \in Conns, j \in Jobs : ~rx[c].down[j]

\* C2: a subscriber connected throughout a job's run has received, when
\* the run is over, exactly one terminal event for the job, and no job
\* state of that job comes after the terminal event.
C2_ExactlyOneTerminal ==
    \A c \in Conns, j \in Jobs :
        (j \in ws[c].attached /\ pc[j] \in Ended)
            => (rx[c].term[j] = 1 /\ ~rx[c].after[j])

\* C3: once the status of a scan is completed or failed, no step changes it.
C3_TerminalStatusStays ==
    [][\A j \in Jobs : scans[j].status \in Terminal
                          => scans'[j].status = scans[j].status]_vars

\* C4: every created job reaches completed or failed: when create_scan has
\* been left, by return or by exception, the status is terminal.
C4_EveryJobTerminates ==
    \A j \in Jobs : pc[j] \in Ended => scans[j].status \in Terminal

\* The outcome of a job that no publish interferes with: a well-formed
\* document completes with one record per candidate (a service has at most
\* one), any other fails with no record.
Candidates(doc) ==
    Cardinality({i \in 1..Len(doc.services) : doc.services[i] # <<>>})

\* C5: whatever connections join, leave or fail during its publishes, a job
\* ends with the status and the number of persisted records it has with no
\* subscriber activity.
C5_OutcomeWithoutSubscribers ==
    \A j \in Jobs :
        pc[j] \in Ended =>
            IF Doc(j).wellformed
            THEN /\ scans[j].status = "completed"
                 /\ Len(vulnerabilities[j]) = Candidates(Doc(j))
            ELSE /\ scans[j].status = "failed"
                 /\ vulnerabilities[j] = <<>>

\* The jobs no connection ever was there for.
C5_Baseline ==
    (\A c \in Conns : ws[c].state = "fresh") => C5_OutcomeWithoutSubscribers

LaterStages == {"extracting", "analyzing", "saving"}

ProgressLoops ==
    {t \in Tasks : /\ iter[t].st \in {"active", "returned"}
                   /\ "msg" \in DOMAIN iter[t]
                   /\ iter[t].msg.type = "scan_progress"}

C8_ReplayOnlyInFlight ==
    [][\A c \in Conns :
          (ws[c].state = "fresh" /\ ws'[c].state # "fresh") =>
              LET o == ws'[c].user_id
                  sent == iter'[Sock(c)].st = "active"
              IN /\ sent <=> (InFlight(o) # {})
                 /\ sent => (DOMAIN iter'[Sock(c)].msg.data = InFlight(o))]_vars

\* C9: no connection is sent a job state it has already received.
C9_AtMostOnce ==
    \A c \in Conns, j \in Jobs : ~rx[c].dup[j]

\* C10: a connection hears only about jobs of the user it is registered
\* under; every socket in a user's set belongs to that user; a personal
\* send goes only to sockets of the addressed user; and only a broadcast
\* started by an administrator goes from one user's sockets to another's.
C10_OwnerIsolation ==
    /\ \A c \in Conns : rx[c].from \subseteq {ws[c].user_id}
    /\ \A o \in DOMAIN active_connections :
          \A c \in active_connections[o] : ws[c].user_id = o
    /\ \A t \in Tasks :
          iter[t].st = "active" =>
             /\ \A c \in iter[t].visited : ws[c].user_id = iter[t].owner
             /\ t # AdminTask => iter[t].keys = {}
             /\ t = AdminTask => env.caller = "admin"

\* A job of one user is done and was heard of by a connection of that
\* user, while a connection of another user is open and an administrator's
\* broadcast is on its way to a second user.
C10_Witness ==
    \E c \in Conns, d \in Conns, j \in Jobs :
        /\ pc[j] = "done"
        /\ ws[c].user_id = scans[j].user_id
        /\ rx[c].from = {scans[j].user_id}
        /\ ws[d].state = "open"
        /\ ws[d].user_id # scans[j].user_id
        /\ iter[AdminTask].st = "active"
        /\ Cardinality(iter[AdminTask].keys) = 2

(* ----------------------- enrichment on its own ------------------------ *)
\* cvss base scores run from 0.0 to 10.0, in tenths.
MaxScore == 100

\* The severities _identify_vulnerabilities gives its candidates.
ExtractorSeverities == {"Critical", "High", "Medium", "Unknown"}

\* _parse_cve_data, lines 154-176 and 186-189: the first metric's base
\* score, None without metrics, and the severity computed from it.
parse_cve_data(score) ==
    [found |-> TRUE, no_cve_found |-> FALSE, cve_id |-> "CVE",
     cvss_score |-> score,
     severity |-> IF ~Truthy(score) THEN "Unknown"
                  ELSE IF score >= 90 THEN "Critical"
                  ELSE IF score >= 70 THEN "High"
                  ELSE IF score >= 40 THEN "Medium"
                  ELSE "Low"]

\* What lookup_cve comes back with: the parsed first hit, or None when no
\* search term finds anything, the request times out or an error is caught.
LookupOutcomes ==
    {[kind |-> "found", info |-> parse_cve_data(score)] :
        score \in (0..MaxScore) \cup {NoScore}}
      \cup {[kind |-> k, info |-> NoCveInfo] :
              k \in {"nothing", "timeout", "error"}}

\* The severities a reply of the model may carry: the prompt asks for one
\* of four, nothing enforces it.
LlmSeverities == {"Critical", "High", "Medium", "Low", "Info"}

\* One generate call raises or replies with a complete analysis.
LlmCalls == {"raise"} \cup LlmSeverities

LlmReply(sev) ==
    [kind |-> "dict", severity |-> sev, recommendation |-> "llm",
     risk_score |-> 0, remediation_commands |-> TRUE]

\* _fallback_analysis, lines 516-527; risk_score 5.0 in tenths.
fallback_analysis ==
    [kind |-> "dict", severity |-> "Medium", recommendation |-> "update",
     risk_score |-> 5 * 10, remediation_commands |-> FALSE]

NoAnalysis ==
    [kind |-> "none", severity |-> "", recommendation |-> "",
     risk_score |-> 0, remediation_commands |-> FALSE]

\* _general_analysis, lines 439-482: None when the call raises.
general_analysis(second) ==
    IF second = "raise" THEN NoAnalysis ELSE LlmReply(second)

\* _structured_vulnerability_analysis, lines 258-305: when the call raises
\* the general analysis is tried.
structured_vulnerability_analysis(first, second) ==
    IF first = "raise" THEN general_analysis(second) ELSE LlmReply(first)

\* analyze_vulnerability, lines 154-190.
analyze_vulnerability(client, first, second) ==
    IF ~client THEN fallback_analysis
    ELSE structured_vulnerability_analysis(first, second)

\* The ways the LLM backend can behave during one analysis; a call that is
\* not made is written "unused".
LlmBehaviours ==
    {[client |-> FALSE, first |-> "unused", second |-> "unused"]}
      \cup {[client |-> TRUE, first |-> f, second |-> "unused"] :
              f \in LlmSeverities}
      \cup {[client |-> TRUE, first |-> "raise", second |-> g] :
              g \in LlmCalls}

\* _process_scan, lines 108-117: the record of one candidate is created.
EnrichCandidate(sev) ==
    /\ enrich.st = "idle"
    /\ enrich' = [st |-> "candidate", cand |-> sev, lookup |-> "",
                  info |-> NoCveInfo, llm |-> "", analysis |-> NoAnalysis,
                  results |-> NoResults,
                  v |-> NewVulnerability(sev)]
    /\ UNCHANGED restEnrich

\* line 120: the database lookup comes back.
EnrichCve(lk) ==
    /\ enrich.st = "candidate"
    /\ enrich' = [enrich EXCEPT
                    !.st = "cve", !.lookup = lk.kind, !.info = lk.info,
                    !.v = enhance_vulnerability_with_cve(@, lk.info)]
    /\ UNCHANGED restEnrich

\* line 123: the LLM analysis comes back.
EnrichLlm(b) ==
    /\ enrich.st = "cve"
    /\ LET a == analyze_vulnerability(b.client, b.first, b.second) IN
       enrich' = [enrich EXCEPT
                    !.st = "llm", !.llm = b, !.analysis = a,
                    !.v = enhance_vulnerability_with_llm(@, a)]
    /\ UNCHANGED restEnrich

\* lines 135 and 145-151: the record is appended and committed.
EnrichPersist ==
    /\ enrich.st = "llm"
    /\ enrich' = [enrich EXCEPT !.st = "persisted"]
    /\ UNCHANGED restEnrich

\* lines 154-163: the result summary of a job with this one record.
EnrichSummary ==
    /\ enrich.st = "persisted"
    /\ enrich' = [enrich EXCEPT
                    !.st = "summary",
                    !.results = results(<<enrich.v>>,
                                        CountSeverity(<<enrich.v>>, "Critical"),
                                        1)]
    /\ UNCHANGED restEnrich

InitEnrich ==
    /\ Quiet
    /\ env = [msgs |-> 0, bcasts |-> 0, caller |-> "", observe |-> FALSE]
    /\ enrich = NoEnrich
    /\ cve = NoLookups
    /\ parser = Idle
    /\ upload = Idle
    /\ store = Idle

NextEnrich ==
    \/ \E sev \in ExtractorSeverities : EnrichCandidate(sev)
    \/ \E lk \in LookupOutcomes : EnrichCve(lk)
    \/ \E b \in LlmBehaviours : EnrichLlm(b)
    \/ EnrichPersist
    \/ EnrichSummary

SpecEnrich == InitEnrich /\ [][NextEnrich]_vars

Severities == {"Critical", "High", "Medium", "Low"}

\* The bucket of a score.
Bucket(score) ==
    IF score >= 90 THEN "Critical"
    ELSE IF score >= 70 THEN "High"
    ELSE IF score >= 40 THEN "Medium"
    ELSE "Low"

\* C11: a persisted Vulnerability with a numeric score has the severity of
\* the score's bucket, for every score from 0.0 to 10.0.
C11_SeverityMatchesScore ==
    (enrich.st = "persisted" /\ enrich.v.cvss_score # NoScore)
        => enrich.v.severity = Bucket(enrich.v.cvss_score)

\* C12: the severity of a persisted Vulnerability is Critical, High,
\* Medium or Low.
C12_SeverityInVocabulary ==
    enrich.st = "persisted" => enrich.v.severity \in Severities

\* The LLM analysis came back with a reply of the model.
LlmSucceeded ==
    /\ enrich.llm.client
    /\ enrich.llm.first # "raise" \/ enrich.llm.second # "raise"

\* C13: when the lookup failed, timed out or found nothing and the LLM
\* analysis succeeded, the enrichment ends with a record to persist that has
\* no external identifier and no score, and a severity, a description and a
\* recommendation.
C13_LookupFailureIsolated ==
    (/\ enrich.st \in {"llm", "persisted"}
     /\ enrich.lookup \in {"nothing", "timeout", "error"}
     /\ LlmSucceeded)
        => /\ enrich.v.cve_id = NoCve
           /\ enrich.v.cvss_score = NoScore
           /\ enrich.v.severity # ""
           /\ enrich.v.description # ""
           /\ enrich.v.recommendation # ""

\* A record is persisted after a lookup that timed out and an LLM reply.
C13_Witness ==
    /\ enrich.st = "persisted"
    /\ enrich.lookup = "timeout"
    /\ LlmSucceeded

\* C14: without a client, or when the LLM calls raise, the analysis is the
\* fallback (Medium, 5.0, the update recommendation, no commands) and the
\* persisted Vulnerability has a recommendation.
C14_LlmFallback ==
    (/\ enrich.st = "persisted"
     /\ ~LlmSucceeded)
        => /\ enrich.analysis = fallback_analysis
           /\ enrich.v.recommendation # ""

\* C21: when the lookup produced a severity for a score it found, the
\* persisted severity is that severity, whatever the LLM returned.
C21_DatabaseSeverityWins ==
    (/\ enrich.st = "persisted"
     /\ enrich.info.found
     /\ enrich.info.cvss_score # NoScore
     /\ enrich.info.severity # "")
        => enrich.v.severity = enrich.info.severity

\* The record the two sub-steps give in the opposite order: the LLM
\* analysis is merged first, the lookup after it.
LlmThenCve ==
    enhance_vulnerability_with_cve(
        enhance_vulnerability_with_llm(NewVulnerability(enrich.cand),
                                       enrich.analysis),
        enrich.info)

\* C22: merging the lookup and then the analysis gives the severity, score,
\* identifier and recommendation that merging them in the opposite order
\* gives.
C22_OrderInsensitive ==
    enrich.st \in {"llm", "persisted"} =>
        /\ enrich.v.severity = LlmThenCve.severity
        /\ enrich.v.cvss_score = LlmThenCve.cvss_score
        /\ enrich.v.cve_id = LlmThenCve.cve_id
        /\ enrich.v.recommendation = LlmThenCve.recommendation

\* C29: in the completion event the four counts per severity add up to the
\* total, which is the number of persisted records.
C29_CountsAddUp ==
    enrich.st = "summary" =>
        /\ enrich.results.critical_count + enrich.results.high_count
             + enrich.results.medium_count + enrich.results.low_count
               = enrich.results.total_vulnerabilities
        /\ enrich.results.total_vulnerabilities = 1

(* ------------------------ the lookup and its cache -------------------- *)
\* The search terms one lookup tries, and the lookups of one key.
MaxTerms == 2
Lookups == {1, 2}

\* What the external database has for the key.
CveData == parse_cve_data(75)
Answers == {NoCveInfo, CveData}

\* A cached dictionary that says an earlier lookup found nothing.
NegativeMarker == [NoCveInfo EXCEPT !.found = TRUE, !.no_cve_found = TRUE]

\* A hit test that serves whatever is cached.
cache_hit_any(cached) == cached.found

\* lookup_cve, lines 27-29: a cached dictionary is a hit unless it is the
\* negative marker.
cache_hit(cached) == cached.found /\ ~cached.no_cve_found

\* A cache read that does not ask whether the backend is there.
get_cve_data_unchecked(c) == c.store

\* CVECache.get_cve_data over CacheService.get: None when the backend is
\* not available or has no entry.
get_cve_data(c) == IF c.up THEN c.store ELSE NoCveInfo

\* CVECache.set_cve_data over CacheService.set: False and nothing stored
\* when the backend is not available.
set_cve_data(c, data) ==
    IF c.up THEN [store |-> data, wrote |-> "ok"]
    ELSE [store |-> c.store, wrote |-> "failed"]

NoLookup ==
    [pc |-> "idle", term |-> 0, got |-> NoCveInfo, wrote |-> "",
     net |-> NoCveInfo, result |-> NoCveInfo]

\* lookup_cve, lines 24-36: the cache is read; a hit is returned.
LookupStart(p) ==
    /\ cve.run[p].pc = "idle"
    /\ \A q \in Lookups : q < p => cve.run[q].pc # "idle"
    /\ LET cached == get_cve_data(cve) IN
       cve' = [cve EXCEPT !.run[p] =
                 IF cache_hit(cached)
                 THEN [NoLookup EXCEPT !.pc = "done", !.got = cached,
                                       !.result = cached]
                 ELSE [NoLookup EXCEPT !.pc = "search", !.term = 1,
                                       !.got = cached]]
    /\ UNCHANGED restCve

\* lookup_cve, lines 65-81, with _search_cves: one request for the next
\* search term; a result is cached and returned, after the last term None is.
LookupSearch(p, reply) ==
    /\ cve.run[p].pc = "search"
    /\ LET data == IF reply = "answer" THEN cve.answer ELSE NoCveInfo
           w == set_cve_data(cve, data)
       IN
       cve' = IF data.found
              THEN [cve EXCEPT !.calls = @ + 1, !.store = w.store,
                               !.run[p].pc = "done",
                               !.run[p].wrote = w.wrote,
                               !.run[p].net = data,
                               !.run[p].result = data]
              ELSE IF cve.run[p].term < cve.terms
              THEN [cve EXCEPT !.calls = @ + 1, !.run[p].term = @ + 1]
              ELSE [cve EXCEPT !.calls = @ + 1, !.run[p].pc = "done"]
    /\ UNCHANGED restCve

InitCve ==
    /\ Quiet
    /\ env = [msgs |-> 0, bcasts |-> 0, caller |-> "", observe |-> FALSE]
    /\ enrich = NoEnrich
    /\ parser = Idle
    /\ upload = Idle
    /\ store = Idle
    /\ \E up \in BOOLEAN, cached \in Answers \cup {NegativeMarker},
          answer \in Answers,
          terms \in 1..MaxTerms :
         cve = [st |-> "on", up |-> up, store |-> cached, answer |-> answer,
                terms |-> terms, calls |-> 0,
                run |-> [p \in Lookups |-> NoLookup]]

NextCve ==
    \/ \E p \in Lookups : LookupStart(p)
    \/ \E p \in Lookups, reply \in {"answer", "timeout"} :
         LookupSearch(p, reply)

SpecCve == InitCve /\ [][NextCve]_vars

\* C15: with the cache working, two lookups of one key issue at most one
\* network call in total and return the same data.
C15_OneCallPerKey ==
    (/\ cve.up
     /\ \A p \in Lookups : cve.run[p].pc = "done")
        => /\ cve.calls <= 1
           /\ cve.run[1].result = cve.run[2].result

\* C20: with the cache backend unreachable every read gives absent, no
\* write reports success, and a lookup returns what its search of the
\* external database gave, as on a miss.
C20_CacheUnreachable ==
    ~cve.up =>
        \A p \in Lookups :
            /\ cve.run[p].got = NoCveInfo
            /\ cve.run[p].wrote # "ok"
            /\ cve.run[p].pc = "done"
                 => /\ cve.run[p].term >= 1
                    /\ cve.run[p].result = cve.run[p].net

\* A lookup found data with an unreachable cache holding an entry: the read
\* gave nothing and the write reported failure.
C20_Witness ==
    /\ ~cve.up
    /\ cve.store.found
    /\ \E p \in Lookups :
         /\ cve.run[p].pc = "done"
         /\ cve.run[p].wrote = "failed"
         /\ cve.run[p].result = cve.answer

\* C27: a lookup that ends with no data leaves the cache as it was, and
\* what a lookup returns without asking the external database is cached
\* data, never the negative marker and never no data.
C27_NegativeResultsNotCached ==
    [][\A p \in Lookups :
         /\ (/\ cve.run[p].pc # "done"
             /\ cve'.run[p].pc = "done"
             /\ ~cve'.run[p].result.found) => cve'.store = cve.store
         /\ (cve'.run[p].pc = "done" /\ cve'.run[p].term = 0) =>
              cve'.run[p].result = CveData
         /\ cve'.run[p].pc = "done" => cve'.run[p].result # NegativeMarker]_vars

\* With the negative marker cached, a lookup ended with no data and the
\* next one asked the external database again.
C27_Witness ==
    /\ cve.up
    /\ cve.store = NegativeMarker
    /\ cve.run[1].pc = "done" /\ ~cve.run[1].result.found
    /\ cve.run[2].term >= 1

(* ----------------------- the search of one lookup --------------------- *)
\* The service names and products looked up; "" is no product.
ServiceNames == {"ssh", "SSH", "custom"}
Products == {"", "OpenSSH", "dropbear"}

\* str.lower on the service names.
lower(name) ==
    IF name = "SSH" THEN "ssh" ELSE IF name = "HTTP" THEN "http" ELSE name

\* service_mapping, lines 39-52: of its entries the one of ssh.
service_mapping(name) ==
    IF name = "ssh" THEN <<"OpenSSH", "SSH">> ELSE <<>>

\* Search terms with the raw service name first.
search_terms_raw_first(service_name, product) ==
    <<service_name>> \o service_mapping(lower(service_name))
        \o (IF product # "" THEN <<product>> ELSE <<>>)

\* lookup_cve, lines 55-65: the mapped terms, the service name, the product.
search_terms(service_name, product) ==
    service_mapping(lower(service_name)) \o <<service_name>>
        \o (IF product # "" THEN <<product>> ELSE <<>>)

AllTerms == {"OpenSSH", "SSH", "ssh", "custom", "dropbear"}

\* _search_cves on a term the database has results for: the first of them,
\* parsed.
TopResult(term) == [CveData EXCEPT !.cve_id = term]

\* lookup_cve, lines 67-74 and 84: one request for the next term; a result
\* ends the loop, after the last term None is returned.
SearchTerm(reply) ==
    /\ cve.st = "search"
    /\ cve.pc = "search"
    /\ LET terms == search_terms(cve.service_name, cve.product)
           term == terms[cve.next]
           hit == reply = "answer" /\ term \in cve.hits
           asked == Append(cve.requests, [term |-> term, hit |-> hit])
       IN
       cve' = IF hit
              THEN [cve EXCEPT !.requests = asked, !.pc = "done",
                               !.result = TopResult(term)]
              ELSE IF cve.next < Len(terms)
              THEN [cve EXCEPT !.requests = asked, !.next = @ + 1]
              ELSE [cve EXCEPT !.requests = asked, !.pc = "done"]
    /\ UNCHANGED restCve

InitSearch ==
    /\ Quiet
    /\ env = [msgs |-> 0, bcasts |-> 0, caller |-> "", observe |-> FALSE]
    /\ enrich = NoEnrich
    /\ parser = Idle
    /\ upload = Idle
    /\ store = Idle
    /\ \E service_name \in ServiceNames, product \in Products,
          hits \in SUBSET AllTerms :
         cve = [st |-> "search", service_name |-> service_name,
                product |-> product, hits |-> hits, pc |-> "search",
                next |-> 1, requests |-> <<>>, result |-> NoCveInfo]

NextSearch == \E reply \in {"answer", "timeout"} : SearchTerm(reply)

SpecSearch == InitSearch /\ [][NextSearch]_vars

\* The priority order of the terms of the lookup under way.
Priority ==
    (IF lower(cve.service_name) = "ssh" THEN <<"OpenSSH", "SSH">> ELSE <<>>)
        \o <<cve.service_name>>
        \o (IF cve.product = "" THEN <<>> ELSE <<cve.product>>)

\* C23: the requests of a lookup go through its terms in priority order, no
\* request follows one that had a result, a lookup that ends with data
\* returns the first result of its last request, and one that ends without
\* data has asked for every term.
C23_FirstTermWithResult ==
    LET asked == cve.requests IN
    /\ Len(asked) <= Len(Priority)
    /\ \A k \in 1..Len(asked) :
         /\ asked[k].term = Priority[k]
         /\ k < Len(asked) => ~asked[k].hit
    /\ cve.pc = "done" =>
         IF asked[Len(asked)].hit
         THEN cve.result = TopResult(asked[Len(asked)].term)
         ELSE ~cve.result.found /\ Len(asked) = Len(Priority)

\* A lookup of SSH with a product found its result with the raw name, after
\* the two mapped terms, and did not ask for the product.
C23_Witness ==
    /\ cve.pc = "done"
    /\ cve.service_name = "SSH" /\ cve.product = "dropbear"
    /\ Len(cve.requests) = 3
    /\ cve.result = TopResult("SSH")

(* ------------------------ the parser on its own ----------------------- *)
\* The hosts of a document and the ports of a host.
MaxHosts == 2
MaxPorts == 2

\* The state attribute of a port; "" when the port has no state element.
PortStates == {"open", "closed", "filtered", ""}

\* A well-formed document: hosts in order, their ports in order.
PortLists == UNION {[1..n -> PortStates] : n \in 0..MaxPorts}
XmlDocs == UNION {[1..n -> PortLists] : n \in 0..MaxHosts}

\* A port extractor that keeps every port that has a state.
extract_port_info_stated(h, k, state) ==
    IF state # "" THEN <<[host |-> h, port |-> k, state |-> state]>>
    ELSE <<>>

\* _extract_port_info: the data of a port, None unless its state is open.
extract_port_info(h, k, state) ==
    IF state = "open" THEN <<[host |-> h, port |-> k, state |-> state]>>
    ELSE <<>>

\* _extract_hosts, lines 96-101: the loop over the ports of host h from k on.
RECURSIVE extract_ports(_, _, _)
extract_ports(h, ports, k) ==
    IF k > Len(ports) THEN <<>>
    ELSE extract_port_info(h, k, ports[k]) \o extract_ports(h, ports, k + 1)

extract_hosts(doc) ==
    [h \in 1..Len(doc) |-> [ports |-> extract_ports(h, doc[h], 1)]]

\* _extract_services: one service per kept port, host after host.
RECURSIVE extract_services(_, _)
extract_services(hosts, h) ==
    IF h > Len(hosts) THEN <<>>
    ELSE hosts[h].ports \o extract_services(hosts, h + 1)

\* parse_xml_file, lines 27-39.
parse_xml_content(doc) ==
    LET hosts == extract_hosts(doc)
        services == extract_services(hosts, 1)
    IN [services |-> services, total_hosts |-> Len(hosts),
        total_services |-> Len(services)]

ParseXml ==
    /\ parser.st = "document"
    /\ parser' = [parser EXCEPT !.st = "parsed",
                                !.out = parse_xml_content(parser.doc)]
    /\ UNCHANGED restParser

InitParser ==
    /\ Quiet
    /\ env = [msgs |-> 0, bcasts |-> 0, caller |-> "", observe |-> FALSE]
    /\ enrich = NoEnrich
    /\ cve = NoLookups
    /\ upload = Idle
    /\ store = Idle
    /\ \E doc \in XmlDocs :
         parser = [st |-> "document", doc |-> doc,
                   out |-> parse_xml_content(<<>>)]

NextParser == ParseXml

SpecParser == InitParser /\ [][NextParser]_vars

OpenPorts(doc) ==
    UNION {{<<h, k>> : k \in {n \in 1..Len(doc[h]) : doc[h][n] = "open"}} :
             h \in 1..Len(doc)}

\* C17: parse returns one service per open port, in document order, none
\* for any other port, and the total it reports is the number of open ports.
C17_OpenPortsInOrder ==
    parser.st = "parsed" =>
        LET s == parser.out.services IN
        /\ Len(s) = Cardinality(OpenPorts(parser.doc))
        /\ parser.out.total_services = Cardinality(OpenPorts(parser.doc))
        /\ \A i \in 1..Len(s) : <<s[i].host, s[i].port>> \in OpenPorts(parser.doc)
        /\ \A i, j \in 1..Len(s) :
             i < j => \/ s[i].host < s[j].host
                      \/ s[i].host = s[j].host /\ s[i].port < s[j].port

\* A parsed document with open ports behind a closed port and behind a port
\* without state, in two hosts.
C17_Witness ==
    /\ parser.st = "parsed"
    /\ parser.doc = <<<<"closed", "open">>, <<"", "open">>>>
    /\ Len(parser.out.services) = 2

(* ---------------------- the extractor on its own ---------------------- *)
\* The script entries of a service.
MaxScripts == 2

\* Text is a sequence of characters; str.lower on it.
lower_text(t) == [k \in 1..Len(t) |-> IF t[k] = "A" THEN "a" ELSE t[k]]

\* The in operator of two strings.
contains(hay, needle) ==
    \E k \in 0..(Len(hay) - Len(needle)) :
        SubSeq(hay, k + 1, k + Len(needle)) = needle

\* vulnerable_patterns, lines 183-191: of its entries the ones of http, with
\* "A 2" for its version strings, and of telnet.
Wildcard == <<"*">>
vulnerable_patterns(name) ==
    IF name = "http"
    THEN [versions |-> <<<<"A", " ", "2">>>>, severity |-> "High"]
    ELSE [versions |-> <<Wildcard>>, severity |-> "High"]
PatternNames == {"http", "telnet"}

\* The script ids, and the in operator on them.
ScriptIds == {"http-vuln", "cve2014", "vuln-cve", "banner"}
id_contains(script_id, word) ==
    \/ word = "vuln" /\ script_id \in {"http-vuln", "vuln-cve"}
    \/ word = "cve" /\ script_id \in {"cve2014", "vuln-cve"}

ScriptLists == UNION {[1..n -> ScriptIds] : n \in 0..MaxScripts}

\* The services handed to the extractor: any one service, or two plain ones.
RichServices ==
    [service_name : {"http", "HTTP", "telnet", "dns"},
     product : {<<>>, <<"A">>, <<"a">>, <<"A", " ", "2">>},
     version : {<<>>, <<"2">>, <<"4">>},
     scripts : ScriptLists]
PlainServices ==
    [service_name : {"telnet", "dns"}, product : {<<>>}, version : {<<>>},
     scripts : {<<>>, <<"http-vuln">>, <<"banner">>}]
ExtractInputs ==
    {<<>>} \cup {<<r>> : r \in RichServices}
      \cup {<<p, q>> : p \in PlainServices, q \in PlainServices}

\* lines 194-205: whether the service matches its pattern.
is_vulnerable(service) ==
    LET name == lower(service.service_name)
        pattern == vulnerable_patterns(name)
        versions == {pattern.versions[k] : k \in 1..Len(pattern.versions)}
    IN /\ name \in PatternNames
       /\ IF Wildcard \in versions THEN TRUE
          ELSE IF service.version # <<>>
          THEN \E v \in versions :
                 contains(lower_text(service.product \o <<" ">>
                                       \o service.version),
                          lower_text(v))
          ELSE FALSE

\* lines 207-214: the candidate of the pattern.
version_candidates(service) ==
    IF is_vulnerable(service)
    THEN <<[type |-> "outdated_version",
            severity |-> vulnerable_patterns(lower(service.service_name)).severity,
            script |-> ""]>>
    ELSE <<>>

\* lines 217-227: the loop over the scripts from k on.
RECURSIVE script_candidates(_, _)
script_candidates(scripts, k) ==
    IF k > Len(scripts) THEN <<>>
    ELSE (IF id_contains(scripts[k], "vuln") \/ id_contains(scripts[k], "cve")
          THEN <<[type |-> "script_detection", severity |-> "Unknown",
                  script |-> scripts[k]]>>
          ELSE <<>>) \o script_candidates(scripts, k + 1)

\* An extractor that looks at the scripts first.
identify_vulnerabilities_scripts_first(service) ==
    script_candidates(service.scripts, 1) \o version_candidates(service)

\* _identify_vulnerabilities.
identify_vulnerabilities(service) ==
    version_candidates(service) \o script_candidates(service.scripts, 1)

\* _process_scan, lines 97-135 and 145: one record per candidate, service
\* after service from idx on.
RECURSIVE process_candidates(_, _)
process_candidates(cands, idx) ==
    IF idx > Len(cands) THEN <<>>
    ELSE [k \in 1..Len(cands[idx]) |->
            [service |-> idx, severity |-> cands[idx][k].severity,
             type |-> cands[idx][k].type, script |-> cands[idx][k].script]]
         \o process_candidates(cands, idx + 1)

\* _extract_services, line 167, for every service.
ExtractCandidates ==
    /\ parser.st = "services"
    /\ parser' = [parser EXCEPT
                    !.st = "extracted",
                    !.candidates = [i \in 1..Len(parser.services) |->
                                      identify_vulnerabilities(parser.services[i])]]
    /\ UNCHANGED restParser

ProcessCandidates ==
    /\ parser.st = "extracted"
    /\ parser' = [parser EXCEPT
                    !.st = "persisted",
                    !.records = process_candidates(parser.candidates, 1)]
    /\ UNCHANGED restParser

InitExtract ==
    /\ Quiet
    /\ env = [msgs |-> 0, bcasts |-> 0, caller |-> "", observe |-> FALSE]
    /\ enrich = NoEnrich
    /\ cve = NoLookups
    /\ upload = Idle
    /\ store = Idle
    /\ \E services \in ExtractInputs :
         parser = [st |-> "services", services |-> services,
                   candidates |-> <<>>, records |-> <<>>]

NextExtract == ExtractCandidates \/ ProcessCandidates

SpecExtract == InitExtract /\ [][NextExtract]_vars

\* The rule of the claim: the lower-cased name is in the table and the rule
\* has the wildcard or one of its strings occurs, whatever the case, in
\* "<product> <version>".
RuleMatches(service) ==
    LET name == IF service.service_name = "HTTP" THEN "http"
                ELSE service.service_name
        text == lower_text(service.product \o <<" ">> \o service.version)
    IN \/ name = "telnet"
       \/ name = "http" /\ contains(text, <<"a", " ", "2">>)

\* C25: a service has a version-match candidate, of severity High as the
\* table says, exactly when the rule matches.
C25_VersionMatchExactly ==
    parser.st \in {"extracted", "persisted"} =>
        \A i \in 1..Len(parser.services) :
            LET versioned == {k \in 1..Len(parser.candidates[i]) :
                                parser.candidates[i][k].type = "outdated_version"}
            IN /\ (versioned # {}) = RuleMatches(parser.services[i])
               /\ \A k \in versioned : parser.candidates[i][k].severity = "High"

\* The script ids of a service that qualify, in script order.
Qualifies(script_id) == script_id # "banner"
QualifyingScripts(service) == SelectSeq(service.scripts, Qualifies)

\* The number of candidates of the services before service i.
RECURSIVE CandidatesBefore(_)
CandidatesBefore(i) ==
    IF i <= 1 THEN 0
    ELSE CandidatesBefore(i - 1) + Len(parser.candidates[i - 1])

\* C26: the candidates of a service are the version-match candidate, if
\* there is one, followed by one script_detection candidate of severity
\* Unknown per qualifying script, in script order and with repetitions; the
\* persisted records are the candidates of the services in service order.
C26_CandidateOrder ==
    /\ parser.st \in {"extracted", "persisted"} =>
         \A i \in 1..Len(parser.services) :
             LET c == parser.candidates[i]
                 q == QualifyingScripts(parser.services[i])
                 head == Len(c) - Len(q)
             IN /\ head \in {0, 1}
                /\ \A k \in 1..head : c[k].type = "outdated_version"
                /\ \A k \in 1..Len(q) :
                     /\ c[head + k].type = "script_detection"
                     /\ c[head + k].severity = "Unknown"
                     /\ c[head + k].script = q[k]
    /\ parser.st = "persisted" =>
         LET r == parser.records IN
         /\ Len(r) = CandidatesBefore(Len(parser.services) + 1)
         /\ \A i \in 1..Len(parser.services) :
              \A k \in 1..Len(parser.candidates[i]) :
                  LET n == CandidatesBefore(i) + k IN
                  /\ r[n].service = i
                  /\ r[n].type = parser.candidates[i][k].type
                  /\ r[n].script = parser.candidates[i][k].script

\* A service with a version match and a script detection, followed by a
\* service with one candidate, has been persisted.
C26_Witness ==
    /\ parser.st = "persisted"
    /\ Len(parser.services) = 2
    /\ Len(parser.candidates[1]) = 2
    /\ Len(parser.candidates[2]) = 1
    /\ Len(parser.records) = 3

(* ------------------------- the upload endpoint ------------------------ *)
\* settings.MAX_FILE_SIZE, 10 MB, counted in units of 5 MB, and the largest
\* upload, in the same units.
MAX_FILE_SIZE == 2
MaxBytes == 3

\* An upload: whether its name ends in .xml, the bytes it carries, the size
\* its client declared, and whether the bytes decode as UTF-8.
Files ==
    [xml : BOOLEAN, bytes : 0..MaxBytes, declared : 0..MaxBytes,
     utf8 : BOOLEAN]

\* A size that is what the client declared.
size_declared(file) == file.declared

\* file.size: the bytes the framework has taken in for the part.
size(file) == file.bytes

\* upload_scan: the status of the response and whether create_scan was
\* called, which creates the job, persists it and publishes its first event.
upload_scan(file) ==
    IF ~file.xml THEN [status |-> 400, created |-> FALSE]
    ELSE IF size(file) # 0 /\ size(file) > MAX_FILE_SIZE
    THEN [status |-> 413, created |-> FALSE]
    ELSE IF ~file.utf8 THEN [status |-> 400, created |-> FALSE]
    ELSE [status |-> 200, created |-> TRUE]

UploadScan ==
    /\ upload.st = "request"
    /\ LET r == upload_scan(upload.file) IN
       upload' = [upload EXCEPT
                    !.st = "response", !.status = r.status,
                    !.jobs = IF r.created THEN 1 ELSE 0,
                    !.events = IF r.created THEN 1 ELSE 0,
                    !.persisted = r.created]
    /\ UNCHANGED restUpload

InitUpload ==
    /\ Quiet
    /\ env = [msgs |-> 0, bcasts |-> 0, caller |-> "", observe |-> FALSE]
    /\ enrich = NoEnrich
    /\ cve = NoLookups
    /\ parser = Idle
    /\ store = Idle
    /\ \E file \in Files :
         upload = [st |-> "request", file |-> file, status |-> 0,
                   jobs |-> 0, events |-> 0, persisted |-> FALSE]

NextUpload == UploadScan

SpecUpload == InitUpload /\ [][NextUpload]_vars

\* C18: an upload that does not decode as UTF-8 or is larger than the
\* maximum is answered with no job created, no event published and nothing
\* persisted, whatever size was declared.
C18_UploadRejected ==
    (/\ upload.st = "response"
     /\ ~upload.file.utf8 \/ upload.file.bytes > MAX_FILE_SIZE)
        => /\ upload.status # 200
           /\ upload.jobs = 0
           /\ upload.events = 0
           /\ ~upload.persisted

\* An .xml upload of valid text that is too large and was declared small
\* has been answered.
C18_Witness ==
    /\ upload.st = "response"
    /\ upload.file.xml /\ upload.file.utf8
    /\ upload.file.bytes > MAX_FILE_SIZE
    /\ upload.file.declared <= MAX_FILE_SIZE
    /\ upload.status = 413

(* ------------------------- the delete of a scan ----------------------- *)
\* The scans of the database, and the one that is deleted.
ScanIds == {1, 2}
Target == 1

\* The rows there may be: vulnerabilities of the scans, and the patches,
\* feedback and reports attached to them.
VulnRows == {[id |-> 1, scan_id |-> 1], [id |-> 2, scan_id |-> 1],
             [id |-> 3, scan_id |-> 2]}
FeedbackRows == {[vulnerability_id |-> 1, scan_id |-> 0],
                 [vulnerability_id |-> 3, scan_id |-> 0],
                 [vulnerability_id |-> 0, scan_id |-> 1],
                 [vulnerability_id |-> 0, scan_id |-> 2]}
Databases ==
    UNION {[scans : {ScanIds}, vulnerabilities : {v},
            patches : SUBSET {r.id : r \in v},
            feedback : SUBSET {f \in FeedbackRows :
                                 f.vulnerability_id \in {0} \cup {r.id : r \in v}},
            reports : SUBSET ScanIds] : v \in SUBSET VulnRows}

\* The statements of delete_scan and its commit.
DeleteSteps == 6
Commit == DeleteSteps + 1

\* Statement k of delete_scan on the tables d.
delete_step(d, scan_id, k) ==
    LET vuln_ids == {r.id : r \in {v \in d.vulnerabilities :
                                     v.scan_id = scan_id}}
    IN CASE k = 1 -> [d EXCEPT !.patches = @ \ vuln_ids]
         [] k = 2 -> [d EXCEPT !.feedback =
                        {f \in @ : f.vulnerability_id \notin vuln_ids}]
         [] k = 3 -> [d EXCEPT !.feedback =
                        {f \in @ : f.scan_id # scan_id}]
         [] k = 4 -> [d EXCEPT !.reports = @ \ {scan_id}]
         [] k = 5 -> [d EXCEPT !.vulnerabilities =
                        {v \in @ : v.scan_id # scan_id}]
         [] OTHER -> [d EXCEPT !.scans = @ \ {scan_id}]

\* The tables as the session sees them after statements 1 to n.
RECURSIVE delete_upto(_, _, _)
delete_upto(d, scan_id, n) ==
    IF n = 0 THEN d
    ELSE delete_step(delete_upto(d, scan_id, n - 1), scan_id, n)

\* A rollback that keeps what the session has done.
rollback_partial(committed, session) == session

\* db.rollback(): the committed tables stay as they were.
rollback(committed, session) == committed

\* delete_scan: every statement, then the commit; raise is the statement
\* that raises, the commit included, 0 when none does.
delete_scan(d, scan_id, raise) ==
    IF raise = 0
    THEN [db |-> delete_upto(d, scan_id, DeleteSteps), outcome |-> "deleted"]
    ELSE [db |-> rollback(d, delete_upto(d, scan_id, raise - 1)),
          outcome |-> "raised"]

DeleteScan(raise) ==
    /\ store.st = "before"
    /\ LET r == delete_scan(store.db, Target, raise) IN
       store' = [store EXCEPT !.st = "after", !.db = r.db,
                              !.outcome = r.outcome]
    /\ UNCHANGED restStore

InitStore ==
    /\ Quiet
    /\ env = [msgs |-> 0, bcasts |-> 0, caller |-> "", observe |-> FALSE]
    /\ enrich = NoEnrich
    /\ cve = NoLookups
    /\ parser = Idle
    /\ upload = Idle
    /\ \E d \in Databases :
         store = [st |-> "before", was |-> d, db |-> d, outcome |-> ""]

NextStore == \E raise \in 0..Commit : DeleteScan(raise)

SpecStore == InitStore /\ [][NextStore]_vars

\* The ids of the vulnerabilities the scan had before the delete.
TargetVulns == {v.id : v \in {r \in store.was.vulnerabilities :
                                r.scan_id = Target}}

\* C19: after a delete that succeeded the scan, its vulnerabilities and the
\* patches, feedback and reports attached to them are gone; after a delete
\* that failed the tables are what they were.
C19_DeleteCascadesOrRollsBack ==
    store.st = "after" =>
        IF store.outcome = "deleted"
        THEN /\ Target \notin store.db.scans
             /\ \A v \in store.db.vulnerabilities : v.scan_id # Target
             /\ store.db.patches \cap TargetVulns = {}
             /\ \A f \in store.db.feedback :
                  f.vulnerability_id \notin TargetVulns /\ f.scan_id # Target
             /\ Target \notin store.db.reports
        ELSE store.db = store.was

\* A scan with two vulnerabilities, a patch, feedback and a report has been
\* deleted.
C19_Witness ==
    /\ store.st = "after"
    /\ store.outcome = "deleted"
    /\ TargetVulns = {1, 2}
    /\ 1 \in store.was.patches
    /\ [vulnerability_id |-> 1, scan_id |-> 0] \in store.was.feedback
    /\ Target \in store.was.reports

(* ------------------------- persistence of a job ----------------------- *)
\* C16: the records of a job are persisted together with its final status:
\* a job with persisted records is completed with its processed timestamp
\* set, and a failed job has no persisted record.
C16_RecordsWithFinalStatus ==
    \A j \in Jobs :
        /\ vulnerabilities[j] # <<>>
             => (scans[j].status = "completed" /\ scans[j].processed_at)
        /\ scans[j].status = "failed" => vulnerabilities[j] = <<>>

\* C24: a job that completes has published one critical alert per persisted
\* record of severity Critical, which is the critical count of its summary;
\* alerts follow the commit of the records and the completion event; a
\* failed job has published none.
C24_CriticalAlerts ==
    \A j \in Jobs :
        /\ pc[j] = "done" =>
             /\ loc[j].alerts_sent = Results(j).critical_count
             /\ loc[j].alerts_sent = CountSeverity(vulnerabilities[j], "Critical")
        /\ loc[j].alerts_sent > 0 =>
             /\ vulnerabilities[j] = loc[j].vulnerabilities
             /\ scans[j].processed_at
             /\ pc[j] \notin {"new", "started", "parsing", "extracting",
                              "analyzing", "enrich", "saving", "complete"}
        /\ scans[j].status = "failed" => loc[j].alerts_sent = 0

\* C28: no owner of the registry has an empty set of connections.
C28_NoEmptyOwner ==
    \A o \in DOMAIN active_connections : active_connections[o] # {}

\* C30: the step that sends the completion event has the records and the
\* completed status committed, and the step that publishes the failure
\* event has the failed status and the error message committed.
C30_TerminalEventAfterCommit ==
    [][\A j \in Jobs :
         /\ (pc[j] # "complete" /\ pc'[j] = "complete") =>
              /\ scans'[j].status = "completed"
              /\ scans'[j].processed_at
              /\ vulnerabilities'[j] = loc'[j].vulnerabilities
         /\ ("failed" \in published'[j] /\ "failed" \notin published[j]) =>
              /\ scans'[j].status = "failed"
              /\ scans'[j].error_message # ""]_vars

\* A job has published its failure event after an exception that followed
\* the commit of its records.
C30_Witness ==
    \E j \in Jobs :
        /\ "failed" \in published[j]
        /\ scans[j].status = "failed"
        /\ vulnerabilities[j] # <<>>
====
